---- MODULE Spec2Model ----
(***************************************************************************)
(* Model of stream_recorder.py: main() (device negotiation, the session    *)
(* loop with day rollover and daily cutoff, shutdown), stream_record()     *)
(* (one session file fed from the single-slot audio_buffer) and the        *)
(* PortAudio callback() that fills the slot.                               *)
(*                                                                         *)
(* Time is the wall clock [day, hour, minute]; a date string '%Y%m%d' is   *)
(* modelled by the day number (>= 0), so the initial current_day = -1 is   *)
(* different from every date, as the int -1 differs from every string.     *)
(* cfg.dura is a float: it is modelled as the rational dura / DuraUnit,    *)
(* and cfg.dura * cfg.fs as the exact product (no binary rounding).        *)
(* A block is [id, len, data]: the number of its delivery, its frame count *)
(* and its samples. A sample of a float stream is the rational             *)
(* x / SampleDen with -SampleDen <= x < SampleDen (exact in float32, as is *)
(* its product with 32768); a sample of an int16 stream is the integer.    *)
(* Progress printing and logging calls change no program state and are     *)
(* left out, except for the logged stop reason.                            *)
(***************************************************************************)
EXTENDS Integers, Sequences, FiniteSets, TLC

\* ---------------------------------------------------------------- bounds
MaxTicks == 2          \* minutes the wall clock may advance in one run
MaxSessions == 2       \* session files one run may open
MaxDeliveries == 3     \* callback invocations in one run
DuraUnit == 2          \* cfg.dura is counted in 1/DuraUnit seconds

\* ------------------------------------------------------- wall-clock time
HoursPerDay == 24
MinutesPerHour == 60

Time(d, h, m) == [day |-> d, hour |-> h, minute |-> m]

\* value of tid before the first datetime.now()
NoTime == Time(-1, -1, -1)

\* the wall clock one minute later
NextMinute(t) ==
    IF t.minute + 1 < MinutesPerHour THEN Time(t.day, t.hour, t.minute + 1)
    ELSE IF t.hour + 1 < HoursPerDay THEN Time(t.day, t.hour + 1, 0)
    ELSE Time(t.day + 1, 0, 0)

\* ----------------------------------------------------------- input sets
DuraNums == {-1, 0, 2, 3}
Rates == {3}
BlockSizes == {2}
EndTimes == {<<-1, 0>>, <<23, 59>>, <<23, 58>>, <<11, 59>>}
StartTimes == {Time(0, 0, 0), Time(0, 12, 0), Time(0, 23, 58), Time(0, 23, 59)}
CaptureLevels == {-3}

\* ------------------------------------------------------------ CFG, main
\* the encodings with the integer format tried first
EncodingsIntFirst == <<"int16", "float32", "float24">>

\* for dtype in ['float32', 'float24', 'int16']
Encodings == <<"float32", "float24", "int16">>

\* int(x) of the rational p / q, q > 0: truncation toward zero
IntTrunc(p, q) == IF p >= 0 THEN p \div q ELSE (p + q - 1) \div q

\* frames = int(cfg.dura * cfg.fs)
TargetFrames(c) == IntTrunc(c.dura * c.fs, DuraUnit)

\* the cutoff test with the cutoff minute itself excluded
ShouldStopStrict(now, end_hour, end_minute) ==
    \/ (now.hour # -1 /\ now.hour > end_hour)
    \/ (now.hour = end_hour /\ now.minute > end_minute)

\* the cutoff test without the comparison of the minutes
ShouldStopHourOnly(now, end_hour, end_minute) ==
    now.hour # -1 /\ now.hour > end_hour

\* the condition of the break at the session boundary
ShouldStop(now, end_hour, end_minute) ==
    \/ (now.hour # -1 /\ now.hour > end_hour)
    \/ (now.hour = end_hour /\ now.minute >= end_minute)

\* buf *= 32768
Scale == 32768

\* a float sample x stands for x / SampleDen: the grid of half steps of the
\* 16-bit scale
SampleDen == 2 * Scale

\* the value v as the 16-bit two's complement integer with the same low bits
Wrap16(v) == ((v + Scale) % (2 * Scale)) - Scale

\* the conversion with floor in place of the cast's truncation
ConvertFloor(d, x) ==
    IF d # "int16" THEN (x * Scale) \div SampleDen ELSE x

\* the conversion without the test of the dtype
ConvertAlways(d, x) ==
    IF d # "int16" THEN IntTrunc(x * Scale, SampleDen) ELSE Wrap16(x * Scale)

\* if buf.dtype != np.int16: buf *= 32768; buf = buf.astype(np.int16)
\* (the cast of a float in the int16 range truncates toward zero)
Convert(d, x) ==
    IF d # "int16" THEN IntTrunc(x * Scale, SampleDen) ELSE x

\* the conversion of all samples of a block
ConvertAll(d, data) == [i \in 1 .. Len(data) |-> Convert(d, data[i])]

\* audio_buffer = np.array([]).reshape(0, 1)
EmptyBuffer == [id |-> 0, len |-> 0, data |-> <<>>]

\* indata of one callback: n frames, all at the same level
Block(k, n, level) ==
    [id |-> k, len |-> n, data |-> [i \in 1 .. n |-> level]]

VARIABLES
    cfg,            \* CFG: dura, fs, blocksize, end_time
    clock,          \* the wall clock
    ticks,          \* minutes elapsed since the start of the run
    pc,             \* position of the main thread
    attempts,       \* sd.InputStream calls made so far: [dtype, ok]
    stream,         \* "none", "created", "started", "stopped", "closed"
    stream_closes,  \* times the stream went from unclosed to closed
    dtype,          \* encoding of the opened stream
    session, frames, end_time_hour, end_time_minute,
    current_day, daily_path, tid,      \* locals of main
    audio_buffer,   \* the global slot shared with callback
    buf, n_frames,  \* locals of stream_record
    files,          \* wave files opened so far (the last one is wf)
    folders,        \* day folders made by mkdir_folder in the loop
    delivered,      \* blocks the callback has delivered, in order
    exit_code,      \* -1 while running
    reason,         \* logged stop reason
    start_clock,    \* wall clock when the run began
    overrun         \* session that was open when the cutoff minute arrived

vars == <<cfg, clock, ticks, pc, attempts, stream, stream_closes, dtype,
          session, frames, end_time_hour, end_time_minute, current_day,
          daily_path, tid, audio_buffer, buf, n_frames, files, folders,
          delivered, exit_code, reason, start_clock, overrun>>

cfgVars == <<cfg, start_clock>>
mainLocals == <<session, frames, end_time_hour, end_time_minute,
                current_day, daily_path, tid>>
recLocals == <<buf, n_frames>>
streamVars == <<attempts, stream, stream_closes, dtype>>
diskVars == <<files, folders>>
exitVars == <<exit_code, reason>>

Configs == [dura : DuraNums, fs : Rates, blocksize : BlockSizes,
            end_time : EndTimes]

\* state at the entry of main(): cfg parsed, audio_buffer initialised
Init ==
    /\ cfg \in Configs
    /\ clock \in StartTimes
    /\ start_clock = clock
    /\ ticks = 0
    /\ pc = "check_dura"
    /\ attempts = <<>>
    /\ stream = "none"
    /\ stream_closes = 0
    /\ dtype = "none"
    /\ session = 0
    /\ frames = 0
    /\ end_time_hour = 0
    /\ end_time_minute = 0
    /\ current_day = -1
    /\ daily_path = -1
    /\ tid = NoTime
    /\ audio_buffer = EmptyBuffer
    /\ buf = EmptyBuffer
    /\ n_frames = 0
    /\ files = <<>>
    /\ folders = {}
    /\ delivered = <<>>
    /\ exit_code = -1
    /\ reason = "none"
    /\ overrun = -1

\* the duration test letting a zero duration through
CheckDuraNegativeOnly ==
    /\ pc = "check_dura"
    /\ IF cfg.dura < 0
       THEN pc' = "exited" /\ exit_code' = 1
       ELSE pc' = "negotiate" /\ exit_code' = exit_code
    /\ UNCHANGED <<cfgVars, clock, ticks, streamVars, mainLocals,
                   audio_buffer, recLocals, diskVars, delivered, reason,
                   overrun>>

\* if cfg.dura <= 0: sys.exit(1)
CheckDura ==
    /\ pc = "check_dura"
    /\ IF cfg.dura <= 0
       THEN pc' = "exited" /\ exit_code' = 1
       ELSE pc' = "negotiate" /\ exit_code' = exit_code
    /\ UNCHANGED <<cfgVars, clock, ticks, streamVars, mainLocals,
                   audio_buffer, recLocals, diskVars, delivered, reason,
                   overrun>>

\* one pass of "for dtype in [...]": try sd.InputStream with the next encoding;
\* break on success, continue on an exception, exit(1) from the for-else
Negotiate ==
    /\ pc = "negotiate"
    /\ Len(attempts) < Len(Encodings)
    /\ \E ok \in BOOLEAN :
        LET d == Encodings[Len(attempts) + 1] IN
        /\ attempts' = Append(attempts, [dtype |-> d, ok |-> ok])
        /\ IF ok
           THEN /\ stream' = "created"
                /\ dtype' = d
                /\ pc' = "start"
                /\ exit_code' = exit_code
           ELSE /\ stream' = stream
                /\ dtype' = dtype
                /\ IF Len(attempts) + 1 = Len(Encodings)
                   THEN pc' = "exited" /\ exit_code' = 1
                   ELSE pc' = pc /\ exit_code' = exit_code
    /\ UNCHANGED <<cfgVars, clock, ticks, stream_closes, mainLocals,
                   audio_buffer, recLocals, diskVars, delivered, reason,
                   overrun>>

\* stream.start() and the initialisation of the locals of the try block
StartStream ==
    /\ pc = "start"
    /\ stream' = "started"
    /\ session' = 0
    /\ frames' = TargetFrames(cfg)
    /\ end_time_hour' = cfg.end_time[1]
    /\ end_time_minute' = cfg.end_time[2]
    /\ current_day' = -1
    /\ pc' = "loop"
    /\ UNCHANGED <<cfgVars, clock, ticks, attempts, stream_closes, dtype,
                   daily_path, tid, audio_buffer, recLocals, diskVars,
                   delivered, exitVars, overrun>>

\* tid = datetime.now()
ReadClock ==
    /\ pc = "loop"
    /\ tid' = clock
    /\ pc' = "boundary"
    /\ UNCHANGED <<cfgVars, clock, ticks, streamVars, session, frames,
                   end_time_hour, end_time_minute, current_day, daily_path,
                   audio_buffer, recLocals, diskVars, delivered, exitVars,
                   overrun>>

\* the day-rollover test (date.today() is a second read of the clock) and
\* the cutoff test of one loop iteration
CheckBoundary ==
    /\ pc = "boundary"
    /\ IF tid.day # current_day
       THEN /\ current_day' = clock.day
            /\ daily_path' = clock.day
            /\ folders' = folders \cup {clock.day}
       ELSE UNCHANGED <<current_day, daily_path, folders>>
    /\ IF ShouldStop(tid, end_time_hour, end_time_minute)
       THEN pc' = "else"
       ELSE pc' = "open"
    /\ UNCHANGED <<cfgVars, clock, ticks, streamVars, session, frames,
                   end_time_hour, end_time_minute, tid, audio_buffer,
                   recLocals, files, delivered, exitVars, overrun>>

\* wf, the wave file of the session in progress, is the last file opened
SetLast(fs, f) == [fs EXCEPT ![Len(fs)] = f]

\* stream_record up to the while loop: wave.open(fname, 'wb') either creates
\* the file or raises OSError, which nothing in main catches
OpenSession ==
    /\ pc = "open"
    /\ Len(files) < MaxSessions
    /\ \E ok \in BOOLEAN :
        IF ok
        THEN /\ files' = Append(files, [session |-> session,
                                        folder |-> daily_path,
                                        stamp |-> clock,
                                        target |-> frames,
                                        n |-> 0,
                                        blocks |-> <<>>,
                                        written |-> <<>>,
                                        closes |-> 0])
             /\ n_frames' = 0
             /\ pc' = "poll"
             /\ exit_code' = exit_code
        ELSE /\ pc' = "crashed"
             /\ exit_code' = 1
             /\ UNCHANGED <<files, n_frames>>
    /\ UNCHANGED <<cfgVars, clock, ticks, streamVars, mainLocals,
                   audio_buffer, buf, folders, delivered, reason, overrun>>

\* the loop test taking one more block when n_frames equals frames
PollSlotInclusive ==
    /\ pc = "poll"
    /\ n_frames <= frames
    /\ audio_buffer.len = cfg.blocksize
    /\ pc' = "read"
    /\ UNCHANGED <<cfgVars, clock, ticks, streamVars, mainLocals,
                   audio_buffer, recLocals, diskVars, delivered, exitVars,
                   overrun>>

\* while n_frames < frames: spin until audio_buffer.shape[0] == cfg.blocksize
PollSlot ==
    /\ pc = "poll"
    /\ n_frames < frames
    /\ audio_buffer.len = cfg.blocksize
    /\ pc' = "read"
    /\ UNCHANGED <<cfgVars, clock, ticks, streamVars, mainLocals,
                   audio_buffer, recLocals, diskVars, delivered, exitVars,
                   overrun>>

\* buf = audio_buffer[:, 0]
ReadSlot ==
    /\ pc = "read"
    /\ buf' = audio_buffer
    /\ pc' = "clear"
    /\ UNCHANGED <<cfgVars, clock, ticks, streamVars, mainLocals,
                   audio_buffer, n_frames, diskVars, delivered, exitVars,
                   overrun>>

\* the slot left as it is after the read
ClearSlotKeeps ==
    /\ pc = "clear"
    /\ pc' = "write"
    /\ UNCHANGED <<cfgVars, clock, ticks, streamVars, mainLocals,
                   audio_buffer, recLocals, diskVars, delivered, exitVars,
                   overrun>>

\* audio_buffer = np.array([]).reshape(0, 1)
ClearSlot ==
    /\ pc = "clear"
    /\ audio_buffer' = EmptyBuffer
    /\ pc' = "write"
    /\ UNCHANGED <<cfgVars, clock, ticks, streamVars, mainLocals, recLocals,
                   diskVars, delivered, exitVars, overrun>>

\* the conversion of buf to int16, n_frames += buf.shape[0],
\* wf.writeframes(b''.join(buf))
WriteBlock ==
    /\ pc = "write"
    /\ buf' = [buf EXCEPT !.data = ConvertAll(dtype, @)]
    /\ n_frames' = n_frames + buf.len
    /\ LET wf == files[Len(files)] IN
        files' = SetLast(files, [wf EXCEPT !.n = @ + buf.len,
                                           !.blocks = Append(@, buf.id),
                                           !.written = Append(@, buf'.data)])
    /\ pc' = "poll"
    /\ UNCHANGED <<cfgVars, clock, ticks, streamVars, mainLocals,
                   audio_buffer, folders, delivered, exitVars, overrun>>

\* the return to main without wf.close()
CloseSessionNoClose ==
    /\ pc = "poll"
    /\ n_frames >= frames
    /\ session' = session + 1
    /\ pc' = "loop"
    /\ UNCHANGED <<cfgVars, clock, ticks, streamVars, frames, end_time_hour,
                   end_time_minute, current_day, daily_path, tid,
                   audio_buffer, recLocals, diskVars, delivered, exitVars,
                   overrun>>

\* the while loop ends: wf.close(), return to main, session += 1
CloseSession ==
    /\ pc = "poll"
    /\ n_frames >= frames
    /\ LET wf == files[Len(files)] IN
        files' = SetLast(files, [wf EXCEPT !.closes = @ + 1])
    /\ session' = session + 1
    /\ pc' = "loop"
    /\ UNCHANGED <<cfgVars, clock, ticks, streamVars, frames, end_time_hour,
                   end_time_minute, current_day, daily_path, tid,
                   audio_buffer, recLocals, folders, delivered, exitVars,
                   overrun>>

\* callback(indata, ...): audio_buffer = indata.copy(), run by the audio
\* thread while the stream is started; indata holds blocksize frames
Callback ==
    /\ stream = "started"
    /\ Len(delivered) < MaxDeliveries
    /\ \E level \in CaptureLevels :
        LET block == Block(Len(delivered) + 1, cfg.blocksize, level) IN
        /\ audio_buffer' = block
        /\ delivered' = Append(delivered, block)
    /\ UNCHANGED <<cfgVars, clock, ticks, pc, streamVars, mainLocals,
                   recLocals, diskVars, exitVars, overrun>>

\* positions of the main thread inside the try block of main
TryPcs == {"start", "loop", "boundary", "open", "poll", "read", "clear", "write"}

\* positions inside stream_record after wave.open: wf is open
SessionPcs == {"poll", "read", "clear", "write"}

Terminal == {"exited", "crashed", "done"}

\* except KeyboardInterrupt: raised anywhere in the try block. Raised inside
\* stream_record it skips wf.close(); the abandoned Wave_write object closes
\* itself only if the interpreter collects it, which is not guaranteed
Interrupt ==
    /\ pc \in TryPcs
    /\ reason' = "interrupt"
    /\ pc' = "teardown"
    /\ IF pc \in SessionPcs
       THEN \E collected \in BOOLEAN :
               LET wf == files[Len(files)] IN
               files' = IF collected
                        THEN SetLast(files, [wf EXCEPT !.closes = @ + 1])
                        ELSE files
       ELSE files' = files
    /\ UNCHANGED <<cfgVars, clock, ticks, streamVars, mainLocals,
                   audio_buffer, recLocals, folders, delivered, exit_code,
                   overrun>>

\* the else clause of the try: the loop ended by break;
\* stream.stop(); stream.close(); 'Recording time is up'
ElseClause ==
    /\ pc = "else"
    /\ stream' = "closed"
    /\ stream_closes' = stream_closes + 1
    /\ reason' = "cutoff"
    /\ pc' = "teardown"
    /\ UNCHANGED <<cfgVars, clock, ticks, attempts, dtype, mainLocals,
                   audio_buffer, recLocals, diskVars, delivered, exit_code,
                   overrun>>

\* the final stop and close without the try: the exception of a stream
\* that is closed already ends the process
TeardownNoExcept ==
    /\ pc = "teardown"
    /\ IF stream = "closed"
       THEN /\ pc' = "crashed"
            /\ exit_code' = 1
            /\ UNCHANGED <<stream, stream_closes>>
       ELSE /\ stream' = "closed"
            /\ stream_closes' = stream_closes + 1
            /\ pc' = "done"
            /\ exit_code' = 0
    /\ UNCHANGED <<cfgVars, clock, ticks, attempts, dtype, mainLocals,
                   audio_buffer, recLocals, diskVars, delivered, reason,
                   overrun>>

\* the final try: stream.stop(); stream.close(); an exception raised by
\* a stream that is closed already is swallowed by the bare except
Teardown ==
    /\ pc = "teardown"
    /\ IF stream = "closed"
       THEN UNCHANGED <<stream, stream_closes>>
       ELSE stream' = "closed" /\ stream_closes' = stream_closes + 1
    /\ pc' = "done"
    /\ exit_code' = 0
    /\ UNCHANGED <<cfgVars, clock, ticks, attempts, dtype, mainLocals,
                   audio_buffer, recLocals, diskVars, delivered, reason,
                   overrun>>

\* the wall clock advances by one minute; overrun records the session whose
\* file was open when the clock reached the cutoff minute
Tick ==
    /\ pc \notin Terminal
    /\ ticks < MaxTicks
    /\ ticks' = ticks + 1
    /\ clock' = NextMinute(clock)
    /\ overrun' = IF /\ overrun = -1
                     /\ pc \in SessionPcs
                     /\ clock'.hour = end_time_hour
                     /\ clock'.minute = end_time_minute
                  THEN session ELSE overrun
    /\ UNCHANGED <<cfgVars, pc, streamVars, mainLocals, audio_buffer,
                   recLocals, diskVars, delivered, exitVars>>

Next ==
    \/ CheckDura \/ Negotiate \/ StartStream
    \/ ReadClock \/ CheckBoundary
    \/ OpenSession \/ PollSlot \/ ReadSlot \/ ClearSlot \/ WriteBlock
    \/ CloseSession
    \/ Callback \/ Interrupt \/ ElseClause \/ Teardown \/ Tick

Spec == Init /\ [][Next]_vars

\* ------------------------------------------- the stop check as a function
\* cutoffs and wall-clock times the stop check is evaluated on
StopEndHours == -1 .. (HoursPerDay - 1)
StopEndMinutes == {0, 1, 30, MinutesPerHour - 1}
DayTimes == {Time(0, h, m) : h \in 0 .. (HoursPerDay - 1),
                             m \in 0 .. (MinutesPerHour - 1)}

\* the state after stream.start(), at the top of the first loop iteration,
\* for every time of day and cutoff
InitStop ==
    /\ cfg \in [dura : {DuraUnit}, fs : Rates, blocksize : BlockSizes,
                end_time : StopEndHours \X StopEndMinutes]
    /\ clock \in DayTimes
    /\ start_clock = clock
    /\ ticks = 0
    /\ pc = "loop"
    /\ attempts = <<[dtype |-> Encodings[1], ok |-> TRUE]>>
    /\ stream = "started"
    /\ stream_closes = 0
    /\ dtype = Encodings[1]
    /\ session = 0
    /\ frames = TargetFrames(cfg)
    /\ end_time_hour = cfg.end_time[1]
    /\ end_time_minute = cfg.end_time[2]
    /\ current_day = -1
    /\ daily_path = -1
    /\ tid = NoTime
    /\ audio_buffer = EmptyBuffer
    /\ buf = EmptyBuffer
    /\ n_frames = 0
    /\ files = <<>>
    /\ folders = {}
    /\ delivered = <<>>
    /\ exit_code = -1
    /\ reason = "none"
    /\ overrun = -1

NextStop == ReadClock \/ CheckBoundary

SpecStop == InitStop /\ [][NextStop]_vars

\* ------------------------------------------- the sample conversion
\* the samples a stream of encoding d can deliver: floats in [-1, 1) on the
\* grid x / SampleDen, or every 16-bit integer
SampleValues(d) ==
    IF d = "int16" THEN (-Scale) .. (Scale - 1)
    ELSE (-SampleDen) .. (SampleDen - 1)

\* the sd.InputStream calls that end with encoding d accepted
AttemptsFor(d) ==
    LET last == CHOOSE i \in 1 .. Len(Encodings) : Encodings[i] = d
    IN  [i \in 1 .. last |-> [dtype |-> Encodings[i], ok |-> (i = last)]]

\* the first block of the first session, read from the slot and about to be
\* converted and written, for every encoding and every sample value
InitConvert ==
    /\ cfg \in [dura : {DuraUnit}, fs : Rates, blocksize : {1},
                end_time : {<<23, 59>>}]
    /\ clock = Time(0, 12, 0)
    /\ start_clock = clock
    /\ ticks = 0
    /\ pc = "write"
    /\ dtype \in {Encodings[i] : i \in 1 .. Len(Encodings)}
    /\ attempts = AttemptsFor(dtype)
    /\ stream = "started"
    /\ stream_closes = 0
    /\ session = 0
    /\ frames = TargetFrames(cfg)
    /\ end_time_hour = cfg.end_time[1]
    /\ end_time_minute = cfg.end_time[2]
    /\ current_day = 0
    /\ daily_path = 0
    /\ tid = clock
    /\ audio_buffer = EmptyBuffer
    /\ \E x \in SampleValues(dtype) :
          /\ buf = Block(1, cfg.blocksize, x)
          /\ delivered = <<Block(1, cfg.blocksize, x)>>
    /\ n_frames = 0
    /\ files = <<[session |-> 0, folder |-> 0, stamp |-> clock,
                  target |-> frames, n |-> 0, blocks |-> <<>>,
                  written |-> <<>>, closes |-> 0]>>
    /\ folders = {0}
    /\ exit_code = -1
    /\ reason = "none"
    /\ overrun = -1

NextConvert == WriteBlock

SpecConvert == InitConvert /\ [][NextConvert]_vars

\* ------------------------------- a producer that can deliver short blocks
\* callback(indata, ...): audio_buffer = indata.copy(), whatever the number
\* of frames of indata is: the callback does not look at it
CallbackAnySize ==
    /\ stream = "started"
    /\ Len(delivered) < MaxDeliveries
    /\ \E n \in 1 .. cfg.blocksize, level \in CaptureLevels :
        LET block == Block(Len(delivered) + 1, n, level) IN
        /\ audio_buffer' = block
        /\ delivered' = Append(delivered, block)
    /\ UNCHANGED <<cfgVars, clock, ticks, pc, streamVars, mainLocals,
                   recLocals, diskVars, exitVars, overrun>>

\* the state after stream.start(), at the top of the first loop iteration,
\* at noon with the cutoff at the end of the day
InitShort ==
    /\ cfg \in [dura : {d \in DuraNums : d > 0}, fs : Rates,
                blocksize : BlockSizes, end_time : {<<23, 59>>}]
    /\ clock = Time(0, 12, 0)
    /\ start_clock = clock
    /\ ticks = 0
    /\ pc = "loop"
    /\ dtype \in {Encodings[i] : i \in 1 .. Len(Encodings)}
    /\ attempts = AttemptsFor(dtype)
    /\ stream = "started"
    /\ stream_closes = 0
    /\ session = 0
    /\ frames = TargetFrames(cfg)
    /\ end_time_hour = cfg.end_time[1]
    /\ end_time_minute = cfg.end_time[2]
    /\ current_day = -1
    /\ daily_path = -1
    /\ tid = NoTime
    /\ audio_buffer = EmptyBuffer
    /\ buf = EmptyBuffer
    /\ n_frames = 0
    /\ files = <<>>
    /\ folders = {}
    /\ delivered = <<>>
    /\ exit_code = -1
    /\ reason = "none"
    /\ overrun = -1

NextShort ==
    \/ ReadClock \/ CheckBoundary
    \/ OpenSession \/ PollSlot \/ ReadSlot \/ ClearSlot \/ WriteBlock
    \/ CloseSession
    \/ CallbackAnySize

SpecShort == InitShort /\ [][NextShort]_vars

\* ------------------------------------ a producer that never stops delivering
\* callback(indata, ...) for as long as the stream is started; the history
\* delivered records the first MaxDeliveries blocks, and every later block
\* carries the number MaxDeliveries + 1
CallbackLive ==
    /\ stream = "started"
    /\ \E level \in CaptureLevels :
        IF Len(delivered) < MaxDeliveries
        THEN LET block == Block(Len(delivered) + 1, cfg.blocksize, level) IN
             /\ audio_buffer' = block
             /\ delivered' = Append(delivered, block)
        ELSE /\ audio_buffer' = Block(MaxDeliveries + 1, cfg.blocksize, level)
             /\ delivered' = delivered
    /\ UNCHANGED <<cfgVars, clock, ticks, pc, streamVars, mainLocals,
                   recLocals, diskVars, exitVars, overrun>>

\* the state after stream.start(), at the top of the first loop iteration,
\* at noon with the cutoff in the next minute or at the end of the day
InitLive ==
    /\ cfg \in [dura : {d \in DuraNums : d > 0}, fs : Rates,
                blocksize : BlockSizes, end_time : {<<12, 1>>, <<23, 59>>}]
    /\ clock = Time(0, 12, 0)
    /\ start_clock = clock
    /\ ticks = 0
    /\ pc = "loop"
    /\ dtype \in {Encodings[i] : i \in 1 .. Len(Encodings)}
    /\ attempts = AttemptsFor(dtype)
    /\ stream = "started"
    /\ stream_closes = 0
    /\ session = 0
    /\ frames = TargetFrames(cfg)
    /\ end_time_hour = cfg.end_time[1]
    /\ end_time_minute = cfg.end_time[2]
    /\ current_day = -1
    /\ daily_path = -1
    /\ tid = NoTime
    /\ audio_buffer = EmptyBuffer
    /\ buf = EmptyBuffer
    /\ n_frames = 0
    /\ files = <<>>
    /\ folders = {}
    /\ delivered = <<>>
    /\ exit_code = -1
    /\ reason = "none"
    /\ overrun = -1

\* the steps of the main thread from the loop on, without an interrupt
MainThread ==
    \/ ReadClock \/ CheckBoundary
    \/ OpenSession \/ PollSlot \/ ReadSlot \/ ClearSlot \/ WriteBlock
    \/ CloseSession
    \/ ElseClause \/ Teardown

NextLive == MainThread \/ CallbackLive \/ Tick

\* the audio thread keeps calling the callback while the stream is started,
\* and the main thread keeps running
SpecLive ==
    /\ InitLive
    /\ [][NextLive]_vars
    /\ WF_vars(CallbackLive)
    /\ WF_vars(MainThread)

\* ------------------------------------------------------------- claims
\* round(x) of the rational p / q, p >= 0, q > 0: to nearest, ties to even
RoundHalfEven(p, q) ==
    LET fl == p \div q
        r == p % q
    IN  IF 2 * r < q THEN fl
        ELSE IF 2 * r > q THEN fl + 1
        ELSE IF fl % 2 = 0 THEN fl ELSE fl + 1

\* the minute of the day before t, as a cutoff <<hour, minute>>
PrevMinute(t) ==
    IF t.minute > 0 THEN <<t.hour, t.minute - 1>>
    ELSE IF t.hour > 0 THEN <<t.hour - 1, MinutesPerHour - 1>>
    ELSE <<HoursPerDay - 1, MinutesPerHour - 1>>

FileIndexes == 1 .. Len(files)

\* C1: with the sentinel cutoff hour -1 the loop never stops because of the
\* cutoff: the stop check never sends the run to the cutoff exit.
C1_SentinelNeverStops ==
    cfg.end_time[1] = -1 => (pc # "else" /\ reason # "cutoff")

\* C2: every completed session file holds exactly round(duration x
\* sampleRate) frames.
C2_ExactFrameCount ==
    \A i \in FileIndexes :
        (files[i].closes = 1 /\ files[i].n >= files[i].target)
            => files[i].n = RoundHalfEven(cfg.dura * cfg.fs, DuraUnit)

\* C3: the session index is reset at a day rollover, so the first session
\* file written in each calendar day carries index 0.
C3_FirstFileOfDayIsIndex0 ==
    \A i \in FileIndexes :
        (i = 1 \/ files[i - 1].folder # files[i].folder)
            => files[i].session = 0

\* C4: when the run has ended, every session file that was opened has been
\* closed exactly once, however its session ended.
C4_EveryFileClosedOnce ==
    pc \in Terminal => \A i \in FileIndexes : files[i].closes = 1

\* C5: once the cutoff minute has arrived during a session, no session
\* after that one is started.
C5_NoSessionAfterOverrun ==
    overrun # -1 => \A i \in FileIndexes : files[i].session <= overrun

\* C6: a run that has ended after its stream was created ends with the
\* stream closed, and closed exactly once, whatever failed in the loop.
C6_FailureReachesTeardown ==
    (pc \in Terminal /\ stream # "none")
        => (stream = "closed" /\ stream_closes = 1)

\* C7: for a cutoff hour in 0..23 the stop check at time (h, m) is true
\* exactly when h > cutoff.hour, or h = cutoff.hour and m >= cutoff.minute.
C7_StopCheckIsCutoffOrLater ==
    (pc \in {"else", "open"} /\ end_time_hour \in 0 .. (HoursPerDay - 1))
        => ((pc = "else") <=>
              \/ tid.hour > end_time_hour
              \/ (tid.hour = end_time_hour /\ tid.minute >= end_time_minute))

\* the stop check has stopped the loop exactly at the cutoff minute
C7_Witness ==
    /\ pc = "else"
    /\ end_time_hour \in 0 .. (HoursPerDay - 1)
    /\ tid.hour = end_time_hour
    /\ tid.minute = end_time_minute

\* C8 as stated: with the cutoff one minute before the start time, for every
\* start time, no session is ever entered.
C8_PastCutoffNoSession ==
    cfg.end_time = PrevMinute(start_clock)
        => (files = <<>> /\ pc \notin ({"open"} \cup SessionPcs))

\* C8 amended: with the cutoff one minute before a start time other than
\* 00:00, as long as every stop check so far read the clock on the start
\* date, no session is entered, and a run that ends without an interrupt
\* ends through the cutoff exit with the stream closed and exit status 0.
C8_PastCutoffSameDay ==
    (/\ cfg.end_time = PrevMinute(start_clock)
     /\ (start_clock.hour # 0 \/ start_clock.minute # 0)
     /\ tid.day \in {-1, start_clock.day})
        => /\ files = <<>>
           /\ pc \notin ({"open"} \cup SessionPcs)
           /\ (pc = "done" /\ reason # "interrupt")
                => (reason = "cutoff" /\ stream = "closed" /\ exit_code = 0)

\* a run with the cutoff one minute before its start has ended through the
\* cutoff exit without a session
C8_Witness ==
    /\ cfg.end_time = PrevMinute(start_clock)
    /\ (start_clock.hour # 0 \/ start_clock.minute # 0)
    /\ tid.day = start_clock.day
    /\ pc = "done"
    /\ reason = "cutoff"
    /\ files = <<>>
    /\ stream = "closed"

\* C9: the encodings are attempted in the order float32, float24, int16,
\* no attempt follows an accepted one, and a stream opened as int16 was
\* preceded by exactly the two rejected float attempts.
C9_NegotiationOrder ==
    /\ Len(attempts) <= 3
    /\ \A i \in 1 .. Len(attempts) :
          /\ attempts[i].dtype = <<"float32", "float24", "int16">>[i]
          /\ (i < Len(attempts) => ~attempts[i].ok)
    /\ stream # "none" =>
          /\ attempts # <<>>
          /\ attempts[Len(attempts)].ok
          /\ attempts[Len(attempts)].dtype = dtype
    /\ (stream # "none" /\ dtype = "int16") =>
          attempts = <<[dtype |-> "float32", ok |-> FALSE],
                       [dtype |-> "float24", ok |-> FALSE],
                       [dtype |-> "int16", ok |-> TRUE]>>

\* a device that rejected both float encodings is streaming int16
C9_Witness ==
    /\ stream = "started"
    /\ dtype = "int16"
    /\ attempts = <<[dtype |-> "float32", ok |-> FALSE],
                    [dtype |-> "float24", ok |-> FALSE],
                    [dtype |-> "int16", ok |-> TRUE]>>

AllRejected ==
    Len(attempts) = 3 /\ \A i \in 1 .. 3 : ~attempts[i].ok

\* C10: a non-positive duration exits with status 1 before any attempt to
\* open a stream; a device rejecting all three encodings exits with status 1
\* with no stream started, no session and no day folder.
C10_StartupFailuresFatal ==
    /\ cfg.dura <= 0 =>
          /\ attempts = <<>>
          /\ stream = "none"
          /\ pc \in {"check_dura", "exited"}
          /\ (pc = "exited" => exit_code = 1)
    /\ AllRejected =>
          /\ pc = "exited"
          /\ exit_code = 1
    /\ pc = "exited" =>
          /\ exit_code = 1
          /\ stream = "none"
          /\ files = <<>>
          /\ folders = {}
          /\ delivered = <<>>

\* the run has exited with status 1 after three rejected encodings
C10_Witness ==
    /\ AllRejected
    /\ cfg.dura > 0
    /\ pc = "exited"
    /\ exit_code = 1

\* C11: an interrupt in the loop, like the cutoff, leads to the final
\* teardown and to no other place; the two paths log different reasons (the
\* cutoff path arrives at the teardown with the stream already closed, the
\* interrupt path with the stream not yet closed), the teardown ends normally
\* on both, and the run ends with the stream closed, closed once, status 0.
C11_BothPathsReachTeardown ==
    /\ reason # "none" => pc \in {"teardown", "done"}
    /\ pc \in {"teardown", "done"} => reason \in {"interrupt", "cutoff"}
    /\ pc = "teardown" => ((reason = "cutoff") <=> (stream = "closed"))
    /\ pc = "done" =>
          /\ stream = "closed"
          /\ stream_closes = 1
          /\ exit_code = 0

\* a run interrupted during a session has ended with the stream closed
C11_Witness ==
    /\ pc = "done"
    /\ reason = "interrupt"
    /\ files # <<>>
    /\ stream = "closed"

\* C12: after every session-boundary check the day-folder key is the date
\* the check was made on (the date of tid) and the folder of that date
\* exists: the key changes at the first check made on a new date, to that
\* date, and at no other check.
C12_KeyIsDateOfCheck ==
    pc \in {"else", "open"} =>
        (current_day = tid.day /\ tid.day \in folders)

\* C13: every session file but the last one opened is closed, so at most one
\* file is open and a session is opened only after the previous one closed.
C13_AtMostOneOpenFile ==
    /\ \A i \in FileIndexes : i < Len(files) => files[i].closes = 1
    /\ Cardinality({i \in FileIndexes : files[i].closes = 0}) <= 1

\* a second session is open after the first one was closed
C13_Witness ==
    /\ Len(files) = 2
    /\ files[1].closes = 1
    /\ files[2].closes = 0

\* the blocks appended to the first k session files, in order
RECURSIVE AppendedUpTo(_)
AppendedUpTo(k) ==
    IF k = 0 THEN <<>> ELSE AppendedUpTo(k - 1) \o files[k].blocks

Appended == AppendedUpTo(Len(files))

\* C17: the blocks appended to the session files are delivered blocks, in
\* delivery order, none of them twice, and each is written whole: all the
\* samples of the delivered block, converted.
C17_AppendedIsSubsequence ==
    /\ \A j \in 1 .. Len(Appended) :
          /\ Appended[j] \in 1 .. Len(delivered)
          /\ (j > 1 => Appended[j - 1] < Appended[j])
    /\ \A i \in FileIndexes :
          /\ Len(files[i].written) = Len(files[i].blocks)
          /\ \A j \in 1 .. Len(files[i].blocks) :
                LET b == delivered[files[i].blocks[j]] IN
                /\ Len(files[i].written[j]) = b.len
                /\ \A k \in 1 .. b.len :
                      files[i].written[j][k] = Convert(dtype, b.data[k])

\* the second delivered block was dropped, the first and third appended
C17_Witness ==
    Appended = <<1, 3>>

\* C18: when the stop check has ended the loop, every day folder the loop
\* created holds a session file.
C18_FolderOnlyWithSession ==
    pc = "else" =>
        \A d \in folders : \E i \in FileIndexes : files[i].folder = d

\* C20: a completed session file with target T > 0 holds exactly
\* B * ceil(T / B) frames, at least T and less than T + B.
C20_WholeBlocksUpToTarget ==
    \A i \in FileIndexes :
        LET f == files[i]
            B == cfg.blocksize
        IN  (f.closes = 1 /\ f.n >= f.target /\ f.target > 0) =>
                /\ f.target = IntTrunc(cfg.dura * cfg.fs, DuraUnit)
                /\ f.n = B * ((f.target + B - 1) \div B)
                /\ f.n >= f.target
                /\ f.n - f.target < B

\* a session with a target that is no multiple of B is closed beyond it
C20_Witness ==
    \E i \in FileIndexes :
        /\ files[i].closes = 1
        /\ files[i].target > 0
        /\ files[i].n > files[i].target

\* the sample delivered and the sample written for it, once the first block
\* of one sample has been written
SampleIn == delivered[1].data[1]
SampleOut == files[1].written[1][1]
SampleWritten ==
    /\ pc = "poll"
    /\ Len(files) = 1
    /\ Len(files[1].written) = 1

\* C14 as stated: a float sample s is written as floor(s x 32768), clamped
\* to the 16-bit range.
C14_FloatConversionIsFloor ==
    (SampleWritten /\ dtype # "int16") =>
        LET fl == (SampleIn * Scale) \div SampleDen
        IN  SampleOut = IF fl < -Scale THEN -Scale
                        ELSE IF fl > Scale - 1 THEN Scale - 1 ELSE fl

\* C14 amended: a float sample s in [-1, 1) is written as s x 32768
\* truncated toward zero: the integer w between 0 and s x 32768 that is
\* less than 1 away from it, which lies in the 16-bit range.
C14_FloatConversionTruncates ==
    (SampleWritten /\ dtype # "int16") =>
        LET w == SampleOut
            p == SampleIn * Scale
        IN  /\ w \in (-Scale) .. (Scale - 1)
            /\ p >= 0 => (p - w * SampleDen) \in 0 .. (SampleDen - 1)
            /\ p < 0 => (w * SampleDen - p) \in 0 .. (SampleDen - 1)

\* a negative float sample whose product with 32768 is no integer is written
C14_Witness ==
    /\ SampleWritten
    /\ dtype = "float32"
    /\ SampleIn < 0
    /\ (SampleIn * Scale) % SampleDen # 0

\* C15: a sample of an int16 block is written unchanged, and converting the
\* written sample again leaves it unchanged.
C15_Int16ConversionIsIdentity ==
    (SampleWritten /\ dtype = "int16") =>
        /\ SampleOut = SampleIn
        /\ Convert("int16", SampleOut) = SampleOut

\* the most negative 16-bit sample of an int16 stream is written
C15_Witness ==
    /\ SampleWritten
    /\ dtype = "int16"
    /\ SampleIn = -Scale
    /\ SampleOut = -Scale
\* C16: every block written to a session file has the configured block
\* size, whatever the producer delivers and whenever it does.
C16_OnlyFullBlocksWritten ==
    \A i \in FileIndexes :
        \A j \in 1 .. Len(files[i].written) :
            Len(files[i].written[j]) = cfg.blocksize

\* the session file number i is complete: at its target and closed
SessionDone(i) ==
    /\ Len(files) >= i
    /\ files[i].closes = 1
    /\ files[i].n >= files[i].target

\* C19: with a producer that keeps delivering full blocks, a main thread
\* that keeps running and no interrupt, every session file that is opened
\* eventually reaches its target frame count and is closed.
C19_OpenedSessionCompletes ==
    \A i \in 1 .. MaxSessions : (Len(files) >= i) ~> SessionDone(i)

\* a session has completed although a block delivered during it was lost
C19_Witness ==
    /\ SessionDone(1)
    /\ files[1].blocks = <<1, 3>>

====
